---- MODULE Spec2Model ----
(***************************************************************************)
(* A model of the WebRTC streaming pair of this repository:                *)
(*   scripts/webrtc_client.py  WebRTCClient.connect, send_data_stream, main *)
(*   scripts/webrtc_server.py  WebRTCServer.handle_offer, on_message        *)
(*                                                                         *)
(* Four specifications share the module:                                    *)
(*   SpecCodec   the frame codec (client lines 96-98, server line 50)      *)
(*   SpecPacer   one call of send_data_stream with arbitrary arguments     *)
(*   SpecClient  main(): connect, readiness poll, the pacer run            *)
(*   SpecServer  concurrent handle_offer calls and the connection list     *)
(* aiortc (the transport engine) and the HTTP relay are the environment:   *)
(* their events are nondeterministic actions.                              *)
(***************************************************************************)
EXTENDS Integers, Sequences, FiniteSets, TLC

(***************************************************************************)
(* Bounds of the model.                                                    *)
(***************************************************************************)
MaxDuration == 2
MaxFrequency == 2
MaxPoints == 1
CodecMaxPoints == 2
MaxMessages == 3       \* messages delivered on one data channel
MaxQuarters == 10      \* duration and frequency of a frame count, in quarters
MaxOffers == 2

(***************************************************************************)
(* Program constants.                                                      *)
(***************************************************************************)
\* main: send_data_stream(duration=10, frequency=4, ...)
MainDuration == 10
MainFrequency == 4
\* the relay's success status (response.status != 200)
StatusOK == 200
\* web.Response(status=500, ...)
StatusError == 500
\* np.float32: 4 bytes per component, 24-bit significand, exponent bias 127
FloatBytes == 4
Components == 3
SigBits == 23
ExpBias == 127

(***************************************************************************)
(* The frame codec: data = np.random.rand(points, 3).astype(np.float32);   *)
(* data[0] = frame; data.tobytes()   and                                   *)
(* np.frombuffer(message, dtype=np.float32).reshape(-1, 3).                *)
(* A float32 is modelled by its IEEE-754 bit pattern (a 32-bit word), a    *)
(* message by its sequence of bytes.                                       *)
(***************************************************************************)
RECURSIVE Pow2(_)
Pow2(k) == IF k <= 0 THEN 1 ELSE 2 * Pow2(k - 1)

RECURSIVE Log2Floor(_)
Log2Floor(n) == IF n <= 1 THEN 0 ELSE 1 + Log2Floor(n \div 2)

\* 2^23, the weight of the exponent field in a float32 bit pattern.
SigUnit == Pow2(SigBits)

\* The float32 nearest to the non-negative integer n (round to nearest, ties
\* to even), as its bit pattern: what the assignment data[0] = frame stores.
F32Bits(n) ==
  IF n = 0 THEN 0
  ELSE LET e == Log2Floor(n)
       IN IF e <= SigBits
          THEN (e + ExpBias) * SigUnit + (n - Pow2(e)) * Pow2(SigBits - e)
          ELSE LET shift == e - SigBits
                   q == n \div Pow2(shift)
                   r == n % Pow2(shift)
                   half == Pow2(shift - 1)
                   up == IF r > half \/ (r = half /\ q % 2 = 1) THEN 1 ELSE 0
               IN (e + ExpBias) * SigUnit + (q + up - SigUnit)

\* The value of a float32 bit pattern (sign bit clear): an integer when the
\* float is an integer below 2^31, otherwise the pattern itself, tagged.
F32Value(w) ==
  IF w = 0 THEN [isInt |-> TRUE, v |-> 0]
  ELSE LET e == (w \div SigUnit) - ExpBias
           sig == SigUnit + (w % SigUnit)
       IN IF e >= SigBits /\ e <= 30
          THEN [isInt |-> TRUE, v |-> sig * Pow2(e - SigBits)]
          ELSE IF e >= 0 /\ e < SigBits /\ sig % Pow2(SigBits - e) = 0
          THEN [isInt |-> TRUE, v |-> sig \div Pow2(SigBits - e)]
          ELSE [isInt |-> FALSE, v |-> w]

\* The value numpy prints for an integer-valued float.
IntValue(n) == [isInt |-> TRUE, v |-> n]

\* The host's native byte order; both dtype=np.float32 uses are native.
ByteOrders == {"little", "big"}

\* The four bytes of a 32-bit word in the given byte order (tobytes).
WordBytes(w, order) ==
  LET le == << w % 256, (w \div 256) % 256, (w \div 65536) % 256,
               (w \div 16777216) % 256 >>
  IN IF order = "little" THEN le ELSE << le[4], le[3], le[2], le[1] >>

\* The word four bytes stand for in the given byte order (frombuffer).
BytesWord(b, order) ==
  IF order = "little"
  THEN b[1] + 256 * b[2] + 65536 * b[3] + 16777216 * b[4]
  ELSE b[4] + 256 * b[3] + 65536 * b[2] + 16777216 * b[1]

\* Bit patterns of float32 values in [0, 1): 0.0 and 0.75 (np.random.rand).
RandWords == {0, 1061158912}

\* The fillings np.random.rand(points, 3) may produce, component by component.
RandFill(points) == [1 .. Components * points -> RandWords]

\* np.random.rand(points, 3) raises for points < 0 and data[0] = frame raises
\* IndexError for points = 0.
EncodeRaises(points) == points < 1

\* data[0] = frame written into the first component only.
FrameData_FirstComponentOnly(frame, points, rnd) ==
  LET w == F32Bits(frame)
  IN [i \in 1 .. Components * points |-> IF i = 1 THEN w ELSE rnd[i]]

\* data after data[0] = frame: row 0 holds float32(frame) three times.
FrameData(frame, points, rnd) ==
  LET w == F32Bits(frame)
  IN [i \in 1 .. Components * points |-> IF i <= Components THEN w ELSE rnd[i]]

\* The bytes of an array of words, in the given byte order.
ToBytes(words, order) ==
  [i \in 1 .. FloatBytes * Len(words) |->
      WordBytes(words[((i - 1) \div FloatBytes) + 1], order)[((i - 1) % FloatBytes) + 1]]

\* binary_data = data.tobytes()
Encode(frame, points, rnd, order) == ToBytes(FrameData(frame, points, rnd), order)

\* Only the element size is checked; a count that is no multiple of 3 is
\* reshaped by dropping the incomplete row.
DecodeRaises_ElementSizeOnly(message) == Len(message) % FloatBytes # 0

\* np.frombuffer(message, dtype=np.float32): raises unless the length is a
\* multiple of 4; .reshape(-1, 3): raises unless the count is a multiple of 3.
DecodeRaises(message) ==
  \/ Len(message) % FloatBytes # 0
  \/ (Len(message) \div FloatBytes) % Components # 0

\* Row r of the decoded array: a triple of float values.
DecodeRow(message, r, order) ==
  LET word(k) == BytesWord(SubSeq(message, FloatBytes * (k - 1) + 1, FloatBytes * k), order)
  IN [c \in 1 .. Components |-> F32Value(word(Components * (r - 1) + c))]

\* arr: the rows of the decoded array.
Decode(message, order) ==
  [r \in 1 .. (Len(message) \div (FloatBytes * Components)) |->
      DecodeRow(message, r, order)]

\* arr[0][0] raises IndexError for an array of no rows.
ReportRaises(arr) == Len(arr) = 0

(***************************************************************************)
(* State.                                                                  *)
(***************************************************************************)
VARIABLES
  \* --- the client process (webrtc_client.py) ---
  cpc,              \* where main() is
  localSet,         \* self.pc: a local description has been applied
  gathering,        \* self.pc.iceGatheringState
  remoteSet,        \* self.pc: a remote description has been applied
  conn,             \* self.pc.connectionState
  chan,             \* self.channel.readyState
  posts,            \* POST requests issued to the relay
  postedComplete,   \* the posted description was gathered completely
  response,         \* the relay's response, None before it arrives
  error,            \* the exception that left main(), None if none
  points,           \* --points
  order,            \* the host's native byte order
  duration,         \* send_data_stream: duration
  frequency,        \* send_data_stream: frequency
  frame,            \* send_data_stream: the loop variable
  ticks,            \* loop iterations begun
  sleeps,           \* interval sleeps begun
  attempts,         \* the calls of self.channel.send, in order
  errors,           \* "Error sending frame" log lines
  observedOpen,     \* main's poll has read readyState == "open"
  connectReturned   \* connect() has returned normally

VARIABLES
  \* --- the server process (webrtc_server.py) ---
  hpc,              \* per handle_offer call: where it is
  hbody,            \* per call: the request body it was given
  hconn,            \* per call: its local pc (an index of pcs), 0 before line 38
  hstatus,          \* per call: the status of the response it returned, 0 before
  pcs,              \* the RTCPeerConnection objects created, in creation order
  connections       \* self.connections

VARIABLES
  \* --- one encode / decode of a frame ---
  codecPhase,       \* "init", "encoded", "decoded" or the failure reached
  codecFrame,       \* frame
  codecPoints,      \* points
  codecOrder,       \* the host's native byte order
  codecMsg,         \* binary_data / message
  codecArr          \* arr

VARIABLES
  \* --- the message handlers of the server's data channels ---
  hostOrder,        \* the server host's native byte order
  handlerOn,        \* per connection: on_message is registered on its channel
  inbox,            \* per connection: the on_message calls scheduled, in order
  arrived,          \* per connection: the messages the channel has delivered
  handled           \* per connection: what each on_message call logged

VARIABLES
  \* --- one evaluation of send_data_stream's frame count ---
  countPhase,       \* "init", "loop" or "done"
  countDuration,    \* duration, in quarters of a second
  countFrequency,   \* frequency, in quarters of a hertz
  countFrames,      \* int(num_frames)
  countTicks        \* iterations of the loop so far

serverVars == << hpc, hbody, hconn, hstatus, pcs, connections >>
inboundVars == << hostOrder, handlerOn, inbox, arrived, handled >>
countVars == << countPhase, countDuration, countFrequency, countFrames, countTicks >>
codecVars == << codecPhase, codecFrame, codecPoints, codecOrder, codecMsg, codecArr >>

clientVars == << cpc, localSet, gathering, remoteSet, conn, chan, posts,
                 postedComplete, response, error, points, order, duration,
                 frequency, frame, ticks, sleeps, attempts, errors,
                 observedOpen, connectReturned >>

engineVars == << localSet, gathering, remoteSet, conn, chan >>
relayVars == << posts, postedComplete, response >>
pacerVars == << duration, frequency, frame, ticks, sleeps, attempts, errors >>
argVars == << points, order >>

None == [kind |-> "none", status |-> 0]

\* HTTP statuses the relay may answer with.
Statuses == {StatusOK, StatusError, 404}

\* Response bodies: a well-formed answer, JSON lacking a field, JSON with a
\* type RTCSessionDescription rejects, and a body that is not JSON.
Bodies == {"answer", "nosdp", "notype", "badtype", "notjson"}

\* response.json() raises, answer_data["sdp"] / ["type"] raise KeyError, or
\* RTCSessionDescription raises ValueError.
AnswerMalformed(body) == body # "answer"

\* The process has ended: main() returned or an exception left it.
ClientExited == cpc \in {"done", "failed"}

(***************************************************************************)
(* The client: WebRTCClient.connect.                                       *)
(***************************************************************************)
\* An exception leaves connect() and main(): asyncio.run raises it.
Raise(kind, status) ==
  /\ cpc' = "failed"
  /\ error' = [kind |-> kind, status |-> status]

\* line 59, inner await: self.pc.createOffer() returns or raises.
ConnectCreateOffer ==
  /\ cpc = "start"
  /\ \E ok \in BOOLEAN :
       IF ok THEN cpc' = "setLocal" /\ error' = error
             ELSE Raise("engine", 0)
  /\ UNCHANGED serverVars /\ UNCHANGED codecVars
  /\ UNCHANGED inboundVars /\ UNCHANGED countVars
  /\ UNCHANGED << engineVars, relayVars, pacerVars, argVars, observedOpen,
                  connectReturned >>

\* line 59, outer await: self.pc.setLocalDescription(offer) returns or raises.
ConnectSetLocal ==
  /\ cpc = "setLocal"
  /\ \E ok \in BOOLEAN :
       IF ok THEN cpc' = "gather" /\ localSet' = TRUE /\ error' = error
             ELSE Raise("engine", 0) /\ localSet' = localSet
  /\ UNCHANGED serverVars /\ UNCHANGED codecVars
  /\ UNCHANGED inboundVars /\ UNCHANGED countVars
  /\ UNCHANGED << gathering, remoteSet, conn, chan, relayVars, pacerVars,
                  argVars, observedOpen, connectReturned >>

\* The offer is posted without waiting for gathering to complete.
ConnectGather_NoWait ==
  /\ cpc = "gather"
  /\ cpc' = "posted"
  /\ posts' = posts + 1
  /\ postedComplete' = (localSet /\ gathering = "complete")
  /\ UNCHANGED serverVars /\ UNCHANGED codecVars
  /\ UNCHANGED inboundVars /\ UNCHANGED countVars
  /\ UNCHANGED << engineVars, response, error, pacerVars, argVars,
                  observedOpen, connectReturned >>

\* lines 62-71: one turn of the gathering wait; once the state is "complete"
\* the offer is posted (the request leaves before the next await returns).
ConnectGather ==
  /\ cpc = "gather"
  /\ IF gathering # "complete"
     THEN UNCHANGED << cpc, posts, postedComplete >>
     ELSE /\ cpc' = "posted"
          /\ posts' = posts + 1
          /\ postedComplete' = (localSet /\ gathering = "complete")
  /\ UNCHANGED serverVars /\ UNCHANGED codecVars
  /\ UNCHANGED inboundVars /\ UNCHANGED countVars
  /\ UNCHANGED << engineVars, response, error, pacerVars, argVars,
                  observedOpen, connectReturned >>

\* A refused exchange sends the offer again.
ConnectResponse_Retry ==
  /\ cpc = "posted"
  /\ \E st \in Statuses, body \in Bodies :
       /\ response' = [status |-> st, body |-> body]
       /\ cpc' = IF st # StatusOK THEN "gather" ELSE "readJson"
  /\ UNCHANGED serverVars /\ UNCHANGED codecVars
  /\ UNCHANGED inboundVars /\ UNCHANGED countVars
  /\ UNCHANGED << engineVars, posts, postedComplete, error, pacerVars, argVars,
                  observedOpen, connectReturned >>

\* The response's status is not looked at.
ConnectResponse_IgnoreStatus ==
  /\ cpc = "posted"
  /\ \E st \in Statuses, body \in Bodies :
       response' = [status |-> st, body |-> body]
  /\ cpc' = "readJson"
  /\ UNCHANGED serverVars /\ UNCHANGED codecVars
  /\ UNCHANGED inboundVars /\ UNCHANGED countVars
  /\ UNCHANGED << engineVars, posts, postedComplete, error, pacerVars, argVars,
                  observedOpen, connectReturned >>

\* lines 71-74: the response arrives; a status other than 200 raises
\* "Signaling server error: <status>", otherwise response.json() is awaited.
ConnectResponse ==
  /\ cpc = "posted"
  /\ \E st \in Statuses, body \in Bodies :
       /\ response' = [status |-> st, body |-> body]
       /\ IF st # StatusOK
          THEN Raise("signaling", st)
          ELSE cpc' = "readJson" /\ error' = error
  /\ UNCHANGED serverVars /\ UNCHANGED codecVars
  /\ UNCHANGED inboundVars /\ UNCHANGED countVars
  /\ UNCHANGED << engineVars, posts, postedComplete, pacerVars, argVars,
                  observedOpen, connectReturned >>

\* Whatever the body holds is handed to setRemoteDescription.
ConnectReadJson_NoValidation ==
  /\ cpc = "readJson"
  /\ cpc' = "setRemote"
  /\ UNCHANGED serverVars /\ UNCHANGED codecVars
  /\ UNCHANGED inboundVars /\ UNCHANGED countVars
  /\ UNCHANGED << engineVars, relayVars, error, pacerVars, argVars,
                  observedOpen, connectReturned >>

\* lines 74-78: the body is parsed and the answer built; a malformed body
\* raises, a well-formed one is handed to setRemoteDescription.
ConnectReadJson ==
  /\ cpc = "readJson"
  /\ IF AnswerMalformed(response.body)
     THEN Raise("malformed", response.status)
     ELSE cpc' = "setRemote" /\ error' = error
  /\ UNCHANGED serverVars /\ UNCHANGED codecVars
  /\ UNCHANGED inboundVars /\ UNCHANGED countVars
  /\ UNCHANGED << engineVars, relayVars, pacerVars, argVars, observedOpen,
                  connectReturned >>

\* lines 78-79: setRemoteDescription returns (connect() returns) or raises.
ConnectSetRemote ==
  /\ cpc = "setRemote"
  /\ \E ok \in BOOLEAN :
       IF ok
       THEN /\ cpc' = "poll"
            /\ remoteSet' = TRUE
            /\ connectReturned' = TRUE
            /\ error' = error
       ELSE /\ Raise("engine", 0)
            /\ UNCHANGED << remoteSet, connectReturned >>
  /\ UNCHANGED serverVars /\ UNCHANGED codecVars
  /\ UNCHANGED inboundVars /\ UNCHANGED countVars
  /\ UNCHANGED << localSet, gathering, conn, chan, relayVars, pacerVars,
                  argVars, observedOpen >>

(***************************************************************************)
(* The client: main.                                                       *)
(***************************************************************************)
\* main gives the wait up, and returns, once the channel is closed.
MainPoll_GiveUpOnClosed ==
  /\ cpc = "poll"
  /\ IF chan = "closed"
     THEN cpc' = "done" /\ UNCHANGED << observedOpen, duration, frequency >>
     ELSE IF chan # "open"
     THEN UNCHANGED << cpc, observedOpen, duration, frequency >>
     ELSE /\ cpc' = "scheduled"
          /\ observedOpen' = TRUE
          /\ duration' = MainDuration
          /\ frequency' = MainFrequency
  /\ UNCHANGED serverVars /\ UNCHANGED codecVars
  /\ UNCHANGED inboundVars /\ UNCHANGED countVars
  /\ UNCHANGED << engineVars, relayVars, error, argVars, frame, ticks, sleeps,
                  attempts, errors, connectReturned >>

\* main creates the task without the readiness wait.
MainPoll_NoWait ==
  /\ cpc = "poll"
  /\ cpc' = "scheduled"
  /\ observedOpen' = (observedOpen \/ chan = "open")
  /\ duration' = MainDuration
  /\ frequency' = MainFrequency
  /\ UNCHANGED serverVars /\ UNCHANGED codecVars
  /\ UNCHANGED inboundVars /\ UNCHANGED countVars
  /\ UNCHANGED << engineVars, relayVars, error, argVars, frame, ticks, sleeps,
                  attempts, errors, connectReturned >>

\* lines 113-118: one turn of the readiness wait; once readyState is "open"
\* the send_data_stream task is created and awaited.
MainPoll ==
  /\ cpc = "poll"
  /\ IF chan # "open"
     THEN UNCHANGED << cpc, observedOpen, duration, frequency >>
     ELSE /\ cpc' = "scheduled"
          /\ observedOpen' = TRUE
          /\ duration' = MainDuration
          /\ frequency' = MainFrequency
  /\ UNCHANGED serverVars /\ UNCHANGED codecVars
  /\ UNCHANGED inboundVars /\ UNCHANGED countVars
  /\ UNCHANGED << engineVars, relayVars, error, argVars, frame, ticks, sleeps,
                  attempts, errors, connectReturned >>

(***************************************************************************)
(* The client: WebRTCClient.send_data_stream.                              *)
(***************************************************************************)
\* num_frames = duration * frequency; the loop runs range(int(num_frames)).
NumFrames == duration * frequency

\* RTCDataChannel.send raises unless readyState is "open"; the engine may
\* also reject a send (rej).
SendRaises(rej) == chan # "open" \/ rej

\* What one call of self.channel.send leaves in the log: row 0 of the frame
\* as a receiver decodes it, the message length, and whether send returned.
Attempt(msg, rej) ==
  [first |-> DecodeRow(msg, 1, order), len |-> Len(msg), ok |-> ~SendRaises(rej)]

\* A tick that ends the run when encoding or sending raises.
Tick_AbortOnError(f, rej) ==
  /\ ticks' = ticks + 1
  /\ IF EncodeRaises(points)
     THEN /\ attempts' = attempts
          /\ errors' = errors + 1
          /\ sleeps' = sleeps
          /\ cpc' = "done"
     ELSE \E rnd \in RandFill(points) :
            LET msg == Encode(f, points, rnd, order)
            IN /\ attempts' = Append(attempts, Attempt(msg, rej))
               /\ errors' = IF SendRaises(rej) THEN errors + 1 ELSE errors
               /\ sleeps' = IF SendRaises(rej) THEN sleeps ELSE sleeps + 1
               /\ cpc' = IF SendRaises(rej) THEN "done" ELSE "sleep"

\* A tick that embeds the 1-based frame number it logs (frame + 1).
Tick_OneBased(f, rej) ==
  /\ ticks' = ticks + 1
  /\ IF EncodeRaises(points)
     THEN attempts' = attempts /\ errors' = errors + 1
     ELSE \E rnd \in RandFill(points) :
            LET msg == Encode(f + 1, points, rnd, order)
            IN /\ attempts' = Append(attempts, Attempt(msg, rej))
               /\ errors' = IF SendRaises(rej) THEN errors + 1 ELSE errors
  /\ sleeps' = sleeps + 1
  /\ cpc' = "sleep"

\* lines 95-103, one iteration for frame f: encode, send, log; an exception
\* of either is caught and logged; then asyncio.sleep(interval) is awaited.
Tick(f, rej) ==
  /\ ticks' = ticks + 1
  /\ IF EncodeRaises(points)
     THEN attempts' = attempts /\ errors' = errors + 1
     ELSE \E rnd \in RandFill(points) :
            \E msg \in {Encode(f, points, rnd, order)} :
               /\ attempts' = Append(attempts, Attempt(msg, rej))
               /\ errors' = IF SendRaises(rej) THEN errors + 1 ELSE errors
  /\ sleeps' = sleeps + 1
  /\ cpc' = "sleep"

\* lines 90-103: the task starts and runs up to its first sleep.
PacerStart(rej) ==
  /\ cpc = "scheduled"
  /\ IF NumFrames <= 0
     THEN cpc' = "done" /\ UNCHANGED << frame, ticks, sleeps, attempts, errors >>
     ELSE frame' = 0 /\ Tick(0, rej)
  /\ UNCHANGED serverVars /\ UNCHANGED codecVars
  /\ UNCHANGED inboundVars /\ UNCHANGED countVars
  /\ UNCHANGED << engineVars, relayVars, error, argVars, duration, frequency,
                  observedOpen, connectReturned >>

\* lines 94-105, 118: the sleep returns; the next iteration runs up to its
\* sleep, or the loop is over, send_data_stream returns and main() with it.
PacerWake(rej) ==
  /\ cpc = "sleep"
  /\ IF frame + 1 < NumFrames
     THEN frame' = frame + 1 /\ Tick(frame + 1, rej)
     ELSE cpc' = "done" /\ UNCHANGED << frame, ticks, sleeps, attempts, errors >>
  /\ UNCHANGED serverVars /\ UNCHANGED codecVars
  /\ UNCHANGED inboundVars /\ UNCHANGED countVars
  /\ UNCHANGED << engineVars, relayVars, error, argVars, duration, frequency,
                  observedOpen, connectReturned >>

(***************************************************************************)
(* The transport engine on the client's side (aiortc), as the code reads   *)
(* it: iceGatheringState (line 62), connectionState (line 39), readyState  *)
(* (line 113) and the outcome of send (line 99).                           *)
(***************************************************************************)
\* Gathering starts once a local description is set, then completes.
EngineGather ==
  /\ ~ClientExited
  /\ localSet
  /\ gathering # "complete"
  /\ gathering' = IF gathering = "new" THEN "gathering" ELSE "complete"
  /\ UNCHANGED serverVars /\ UNCHANGED codecVars
  /\ UNCHANGED inboundVars /\ UNCHANGED countVars
  /\ UNCHANGED << cpc, localSet, remoteSet, conn, chan, relayVars, error,
                  pacerVars, argVars, observedOpen, connectReturned >>

\* With both descriptions applied the transports connect.
EngineConnect ==
  /\ ~ClientExited
  /\ localSet /\ remoteSet
  /\ conn \in {"new", "connecting"}
  /\ conn' = IF conn = "new" THEN "connecting" ELSE "connected"
  /\ UNCHANGED serverVars /\ UNCHANGED codecVars
  /\ UNCHANGED inboundVars /\ UNCHANGED countVars
  /\ UNCHANGED << cpc, localSet, gathering, remoteSet, chan, relayVars, error,
                  pacerVars, argVars, observedOpen, connectReturned >>

\* On a connected session the data channel opens ("open" event, line 41).
ChannelOpen ==
  /\ ~ClientExited
  /\ conn = "connected"
  /\ chan = "connecting"
  /\ chan' = "open"
  /\ UNCHANGED serverVars /\ UNCHANGED codecVars
  /\ UNCHANGED inboundVars /\ UNCHANGED countVars
  /\ UNCHANGED << cpc, localSet, gathering, remoteSet, conn, relayVars, error,
                  pacerVars, argVars, observedOpen, connectReturned >>

\* The engine reports disconnect or failure: the session and its channel
\* close, from any state.
EngineClose ==
  /\ ~ClientExited
  /\ conn # "closed"
  /\ conn' = "closed"
  /\ chan' = "closed"
  /\ UNCHANGED serverVars /\ UNCHANGED codecVars
  /\ UNCHANGED inboundVars /\ UNCHANGED countVars
  /\ UNCHANGED << cpc, localSet, gathering, remoteSet, relayVars, error,
                  pacerVars, argVars, observedOpen, connectReturned >>

\* The session state of the specification's state machine, for the client.
ClientSessionState ==
  IF conn = "closed" THEN "CLOSED"
  ELSE IF conn = "connected" /\ chan = "open" THEN "CONNECTED"
  ELSE IF localSet \/ remoteSet THEN "NEGOTIATING"
  ELSE "NEW"

(***************************************************************************)
(* Initial states and next-state relations of the client.                  *)
(***************************************************************************)
NoResponse == [status |-> 0, body |-> "none"]

\* WebRTCClient.__init__ (lines 33-35) and the command line (lines 128-134).
ClientInit ==
  /\ cpc = "start"
  /\ localSet = FALSE /\ gathering = "new" /\ remoteSet = FALSE
  /\ conn = "new" /\ chan = "connecting"
  /\ posts = 0 /\ postedComplete = FALSE /\ response = NoResponse
  /\ error = None
  /\ points \in 0 .. MaxPoints
  /\ order \in ByteOrders
  /\ duration = 0 /\ frequency = 0 /\ frame = 0
  /\ ticks = 0 /\ sleeps = 0 /\ attempts = << >> /\ errors = 0
  /\ observedOpen = FALSE /\ connectReturned = FALSE

\* A call of send_data_stream(duration, frequency, points) on an established
\* session whose channel is open.
PacerInit ==
  /\ cpc = "scheduled"
  /\ localSet = TRUE /\ gathering = "complete" /\ remoteSet = TRUE
  /\ conn = "connected" /\ chan = "open"
  /\ posts = 1 /\ postedComplete = TRUE
  /\ response = [status |-> StatusOK, body |-> "answer"]
  /\ error = None
  /\ points \in 0 .. MaxPoints
  /\ order \in ByteOrders
  /\ duration \in 1 .. MaxDuration
  /\ frequency \in 1 .. MaxFrequency
  /\ frame = 0
  /\ ticks = 0 /\ sleeps = 0 /\ attempts = << >> /\ errors = 0
  /\ observedOpen = TRUE /\ connectReturned = TRUE

(***************************************************************************)
(* The server: WebRTCServer.handle_offer.  Each call is one coroutine; the *)
(* event loop interleaves the calls at their awaits.                       *)
(***************************************************************************)
Handlers == 1 .. MaxOffers

\* Request bodies: an SDP offer, JSON lacking "sdp", JSON with a type that
\* RTCSessionDescription rejects, and a body that is not JSON.
OfferBodies == {"offer", "nosdp", "badtype", "notjson"}

\* request.json() raises, params["sdp"] raises KeyError, or
\* RTCSessionDescription raises ValueError.
OfferMalformed(body) == body # "offer"

\* RTCPeerConnection(): a new connection, nothing applied, no channel yet.
NewPc == [remoteSet |-> FALSE, localSet |-> FALSE, conn |-> "new", chan |-> "none"]

Range(f) == {f[i] : i \in DOMAIN f}

\* lines 154-156: the exception is logged and status 500 returned.
Respond500(h) ==
  /\ hpc' = [hpc EXCEPT ![h] = "done"]
  /\ hstatus' = [hstatus EXCEPT ![h] = StatusError]

\* aiohttp calls handle_offer for a POST /offer; the call runs to line 31.
OfferArrives(h) ==
  /\ hpc[h] = "idle"
  /\ IF h = 1 THEN TRUE ELSE hpc[h - 1] # "idle"
  /\ \E body \in OfferBodies : hbody' = [hbody EXCEPT ![h] = body]
  /\ hpc' = [hpc EXCEPT ![h] = "json"]
  /\ UNCHANGED << hconn, hstatus, pcs, connections >>
  /\ UNCHANGED clientVars /\ UNCHANGED codecVars
  /\ UNCHANGED inboundVars /\ UNCHANGED countVars

\* The call takes the connection created first instead of a new one.
HandleParse_SharedPc(h) ==
  /\ hpc[h] = "json"
  /\ IF OfferMalformed(hbody[h])
     THEN Respond500(h) /\ UNCHANGED << hconn, pcs >>
     ELSE /\ pcs' = IF pcs = << >> THEN << NewPc >> ELSE pcs
          /\ hconn' = [hconn EXCEPT ![h] = 1]
          /\ hpc' = [hpc EXCEPT ![h] = "setRemote"]
          /\ hstatus' = hstatus
  /\ UNCHANGED << hbody, connections >>
  /\ UNCHANGED clientVars /\ UNCHANGED codecVars
  /\ UNCHANGED inboundVars /\ UNCHANGED countVars

\* A call waits at its first await while another call is in its handshake.
HandleParse_Serialised(h) ==
  /\ hpc[h] = "json"
  /\ \A g \in Handlers : hpc[g] \notin {"setRemote", "createAnswer", "setLocal"}
  /\ IF OfferMalformed(hbody[h])
     THEN Respond500(h) /\ UNCHANGED << hconn, pcs >>
     ELSE /\ pcs' = Append(pcs, NewPc)
          /\ hconn' = [hconn EXCEPT ![h] = Len(pcs) + 1]
          /\ hpc' = [hpc EXCEPT ![h] = "setRemote"]
          /\ hstatus' = hstatus
  /\ UNCHANGED << hbody, connections >>
  /\ UNCHANGED clientVars /\ UNCHANGED codecVars
  /\ UNCHANGED inboundVars /\ UNCHANGED countVars

\* The connection is appended to self.connections as soon as it is created.
HandleParse_RegisterAtCreation(h) ==
  /\ hpc[h] = "json"
  /\ IF OfferMalformed(hbody[h])
     THEN Respond500(h) /\ UNCHANGED << hconn, pcs, connections >>
     ELSE /\ pcs' = Append(pcs, NewPc)
          /\ connections' = Append(connections, Len(pcs) + 1)
          /\ hconn' = [hconn EXCEPT ![h] = Len(pcs) + 1]
          /\ hpc' = [hpc EXCEPT ![h] = "setRemote"]
          /\ hstatus' = hstatus
  /\ UNCHANGED hbody
  /\ UNCHANGED clientVars /\ UNCHANGED codecVars
  /\ UNCHANGED inboundVars /\ UNCHANGED countVars

\* lines 31-144: request.json() returns or raises; the offer is built, a new
\* RTCPeerConnection created, its handlers registered, and
\* setRemoteDescription awaited.
HandleParse(h) ==
  /\ hpc[h] = "json"
  /\ IF OfferMalformed(hbody[h])
     THEN Respond500(h) /\ UNCHANGED << hconn, pcs >>
     ELSE /\ pcs' = Append(pcs, NewPc)
          /\ hconn' = [hconn EXCEPT ![h] = Len(pcs) + 1]
          /\ hpc' = [hpc EXCEPT ![h] = "setRemote"]
          /\ hstatus' = hstatus
  /\ UNCHANGED << hbody, connections >>
  /\ UNCHANGED clientVars /\ UNCHANGED codecVars
  /\ UNCHANGED inboundVars /\ UNCHANGED countVars

\* The outcomes of an engine call on pc: it raises on a closed connection,
\* and may raise on any other.
EngineOutcomes(pc) == IF pc.conn = "closed" THEN {FALSE} ELSE BOOLEAN

\* lines 144-145: setRemoteDescription returns or raises.
HandleSetRemote(h) ==
  /\ hpc[h] = "setRemote"
  /\ \E ok \in EngineOutcomes(pcs[hconn[h]]) :
       IF ok
       THEN /\ pcs' = [pcs EXCEPT ![hconn[h]].remoteSet = TRUE]
            /\ hpc' = [hpc EXCEPT ![h] = "createAnswer"]
            /\ hstatus' = hstatus
       ELSE Respond500(h) /\ pcs' = pcs
  /\ UNCHANGED << hbody, hconn, connections >>
  /\ UNCHANGED clientVars /\ UNCHANGED codecVars
  /\ UNCHANGED inboundVars /\ UNCHANGED countVars

\* lines 145-146: createAnswer returns or raises.
HandleCreateAnswer(h) ==
  /\ hpc[h] = "createAnswer"
  /\ \E ok \in EngineOutcomes(pcs[hconn[h]]) :
       IF ok
       THEN hpc' = [hpc EXCEPT ![h] = "setLocal"] /\ hstatus' = hstatus
       ELSE Respond500(h)
  /\ UNCHANGED << hbody, hconn, pcs, connections >>
  /\ UNCHANGED clientVars /\ UNCHANGED codecVars
  /\ UNCHANGED inboundVars /\ UNCHANGED countVars

\* lines 146-153: setLocalDescription returns or raises; on return the
\* connection is appended to self.connections and the answer returned.
HandleSetLocal(h) ==
  /\ hpc[h] = "setLocal"
  /\ \E ok \in EngineOutcomes(pcs[hconn[h]]) :
       IF ok
       THEN /\ pcs' = [pcs EXCEPT ![hconn[h]].localSet = TRUE]
            /\ connections' = Append(connections, hconn[h])
            /\ hpc' = [hpc EXCEPT ![h] = "done"]
            /\ hstatus' = [hstatus EXCEPT ![h] = StatusOK]
       ELSE Respond500(h) /\ UNCHANGED << pcs, connections >>
  /\ UNCHANGED << hbody, hconn >>
  /\ UNCHANGED clientVars /\ UNCHANGED codecVars
  /\ UNCHANGED inboundVars /\ UNCHANGED countVars

\* The next step of call h, whichever await it is suspended at.
HandleStep(h) ==
  \/ HandleParse(h)
  \/ HandleSetRemote(h)
  \/ HandleCreateAnswer(h)
  \/ HandleSetLocal(h)

(***************************************************************************)
(* The transport engine on the server's side, per connection.              *)
(***************************************************************************)
PcIds == 1 .. Len(pcs)

\* With both descriptions applied the transports connect.
ServerEngineConnect(p) ==
  /\ pcs[p].remoteSet /\ pcs[p].localSet
  /\ pcs[p].conn \in {"new", "connecting"}
  /\ pcs' = [pcs EXCEPT ![p].conn =
                IF pcs[p].conn = "new" THEN "connecting" ELSE "connected"]
  /\ UNCHANGED << hpc, hbody, hconn, hstatus, connections >>
  /\ UNCHANGED clientVars /\ UNCHANGED codecVars
  /\ UNCHANGED inboundVars /\ UNCHANGED countVars

\* lines 40-45: the remote peer's data channel is announced on a connected
\* session ("datachannel" event) and is open; on_datachannel registers
\* on_message on it.
ServerChannelAnnounced(p) ==
  /\ pcs[p].conn = "connected"
  /\ pcs[p].chan = "none"
  /\ pcs' = [pcs EXCEPT ![p].chan = "open"]
  /\ handlerOn' = [handlerOn EXCEPT ![p] = TRUE]
  /\ UNCHANGED << hpc, hbody, hconn, hstatus, connections >>
  /\ UNCHANGED << hostOrder, inbox, arrived, handled >>
  /\ UNCHANGED clientVars /\ UNCHANGED codecVars /\ UNCHANGED countVars

\* The engine reports disconnect or failure: the session closes, from any
\* state, and its channel with it.  The server code takes no step on it.
ServerEngineClose(p) ==
  /\ pcs[p].conn # "closed"
  /\ pcs' = [pcs EXCEPT ![p].conn = "closed",
                        ![p].chan = IF pcs[p].chan = "none" THEN "none" ELSE "closed"]
  /\ UNCHANGED << hpc, hbody, hconn, hstatus, connections >>
  /\ UNCHANGED clientVars /\ UNCHANGED codecVars
  /\ UNCHANGED inboundVars /\ UNCHANGED countVars

\* The session state of the specification's state machine, for a connection.
SessionState(pc) ==
  IF pc.conn = "closed" THEN "CLOSED"
  ELSE IF pc.conn = "connected" /\ pc.chan = "open" THEN "CONNECTED"
  ELSE IF pc.localSet \/ pc.remoteSet THEN "NEGOTIATING"
  ELSE "NEW"

InRegistry(p) == p \in Range(connections)

\* WebRTCServer.__init__ (lines 25-27): no connection, no call in progress.
ServerInit ==
  /\ hpc = [h \in Handlers |-> "idle"]
  /\ hbody = [h \in Handlers |-> "none"]
  /\ hconn = [h \in Handlers |-> 0]
  /\ hstatus = [h \in Handlers |-> 0]
  /\ pcs = << >>
  /\ connections = << >>

ServerNext ==
  \/ \E h \in Handlers : OfferArrives(h)
  \/ \E h \in Handlers : HandleParse(h)
  \/ \E h \in Handlers : HandleSetRemote(h)
  \/ \E h \in Handlers : HandleCreateAnswer(h)
  \/ \E h \in Handlers : HandleSetLocal(h)
  \/ \E p \in PcIds : ServerEngineConnect(p)
  \/ \E p \in PcIds : ServerChannelAnnounced(p)
  \/ \E p \in PcIds : ServerEngineClose(p)

(***************************************************************************)
(* The server: on_message, the handler of a data channel's messages.       *)
(* aiortc's channel is a pyee AsyncIOEventEmitter: for each message it      *)
(* schedules one call of the async handler; the calls hold no await, so the *)
(* event loop runs each to its end, in the order they were scheduled.       *)
(***************************************************************************)
\* What a peer may send as its n-th message (n from 0): the first len bytes
\* of a two-point frame numbered n, or a text message.
InboundLengths == {0, 4, 10, 12, 16, 24}

InboundFrame(n, byteOrder) ==
  Encode(n, 2, [i \in 1 .. 2 * Components |-> 1061158912], byteOrder)  \* fill 0.75

InboundMessages(n, byteOrder) ==
  {[id |-> n + 1, binary |-> TRUE, data |-> SubSeq(InboundFrame(n, byteOrder), 1, len)] :
      len \in InboundLengths}
  \cup {[id |-> n + 1, binary |-> FALSE, data |-> << >>]}

\* lines 44-45: the channel emits "message"; a call of on_message is
\* scheduled if the handler is registered, otherwise the message is lost.
MessageArrives(p) ==
  /\ pcs[p].chan = "open"
  /\ arrived[p] < MaxMessages
  /\ \E m \in InboundMessages(arrived[p], hostOrder) :
       inbox' = [inbox EXCEPT ![p] = IF handlerOn[p] THEN Append(@, m) ELSE @]
  /\ arrived' = [arrived EXCEPT ![p] = @ + 1]
  /\ UNCHANGED << hostOrder, handlerOn, handled >>
  /\ UNCHANGED serverVars
  /\ UNCHANGED clientVars /\ UNCHANGED codecVars /\ UNCHANGED countVars

\* lines 46-55: what one call of on_message logs.  A text message gets the
\* warning; a bytes message is decoded and arr[0][0] and arr.shape logged,
\* and any exception of the three is caught and logged.
Report(m, byteOrder) ==
  IF ~m.binary THEN [kind |-> "warned", id |-> m.id]
  ELSE IF DecodeRaises(m.data)
  THEN [kind |-> "dropped", id |-> m.id, len |-> Len(m.data)]
  ELSE LET arr == Decode(m.data, byteOrder)
       IN IF ReportRaises(arr)
          THEN [kind |-> "dropped", id |-> m.id, len |-> Len(m.data)]
          ELSE [kind |-> "frame", id |-> m.id, len |-> Len(m.data),
                first |-> arr[1][1], rows |-> Len(arr)]

\* A handler that is taken off the channel when a message fails to decode.
OnMessage_UnregisterOnError(p) ==
  /\ inbox[p] # << >>
  /\ LET out == Report(Head(inbox[p]), hostOrder)
     IN /\ handled' = [handled EXCEPT ![p] = Append(@, out)]
        /\ handlerOn' = [handlerOn EXCEPT ![p] = (out.kind # "dropped")]
  /\ inbox' = [inbox EXCEPT ![p] = Tail(@)]
  /\ UNCHANGED << hostOrder, arrived >>
  /\ UNCHANGED serverVars
  /\ UNCHANGED clientVars /\ UNCHANGED codecVars /\ UNCHANGED countVars

\* lines 45-55: the event loop runs the oldest scheduled call of on_message.
OnMessage(p) ==
  /\ inbox[p] # << >>
  /\ handled' = [handled EXCEPT ![p] = Append(@, Report(Head(inbox[p]), hostOrder))]
  /\ inbox' = [inbox EXCEPT ![p] = Tail(@)]
  /\ UNCHANGED << hostOrder, handlerOn, arrived >>
  /\ UNCHANGED serverVars
  /\ UNCHANGED clientVars /\ UNCHANGED codecVars /\ UNCHANGED countVars

\* A server with one session established and registered (a call answered
\* 200, the transports connected), its data channel not yet announced.
InboundServerInit ==
  /\ hpc = [h \in Handlers |-> IF h = 1 THEN "done" ELSE "idle"]
  /\ hbody = [h \in Handlers |-> IF h = 1 THEN "offer" ELSE "none"]
  /\ hconn = [h \in Handlers |-> IF h = 1 THEN 1 ELSE 0]
  /\ hstatus = [h \in Handlers |-> IF h = 1 THEN StatusOK ELSE 0]
  /\ pcs = << [remoteSet |-> TRUE, localSet |-> TRUE, conn |-> "connected",
               chan |-> "none"] >>
  /\ connections = << 1 >>

InboundInit ==
  /\ hostOrder \in ByteOrders
  /\ handlerOn = [p \in Handlers |-> FALSE]
  /\ inbox = [p \in Handlers |-> << >>]
  /\ arrived = [p \in Handlers |-> 0]
  /\ handled = [p \in Handlers |-> << >>]

InboundNext ==
  \/ \E p \in PcIds : ServerChannelAnnounced(p)
  \/ \E p \in PcIds : MessageArrives(p)
  \/ \E p \in PcIds : OnMessage(p)
  \/ \E p \in PcIds : ServerEngineClose(p)

(***************************************************************************)
(* One encode on the client and one decode on the server of a frame.       *)
(***************************************************************************)
\* 2^24: every integer up to it is a float32.
F32ExactMax == 16777216

\* Frame numbers tried: small ones, main's last (39), and those around 2^24.
CodecFrames == 0 .. 3 \cup {39, 255, 256}
               \cup (F32ExactMax - 2) .. (F32ExactMax + 4)

CodecInit ==
  /\ codecPhase = "init"
  /\ codecFrame \in CodecFrames
  /\ codecPoints \in 0 .. CodecMaxPoints
  /\ codecOrder \in ByteOrders
  /\ codecMsg = << >>
  /\ codecArr = << >>

\* A codec state outside the codec's specification.
CodecIdle ==
  /\ codecPhase = "init"
  /\ codecFrame = 0
  /\ codecPoints = 1
  /\ codecOrder = "little"
  /\ codecMsg = << >>
  /\ codecArr = << >>

\* client lines 96-98: the frame is built and serialised, or raises.
CodecEncode ==
  /\ codecPhase = "init"
  /\ IF EncodeRaises(codecPoints)
     THEN codecPhase' = "encodeFailed" /\ codecMsg' = codecMsg
     ELSE /\ codecPhase' = "encoded"
          /\ \E rnd \in RandFill(codecPoints) :
               codecMsg' = Encode(codecFrame, codecPoints, rnd, codecOrder)
  /\ UNCHANGED << codecFrame, codecPoints, codecOrder, codecArr >>
  /\ UNCHANGED clientVars /\ UNCHANGED serverVars
  /\ UNCHANGED inboundVars /\ UNCHANGED countVars

\* server lines 50-53: the message is decoded and its first value read for
\* the log line, or the exception of either is caught.
CodecDecode ==
  /\ codecPhase = "encoded"
  /\ IF DecodeRaises(codecMsg)
     THEN codecPhase' = "decodeFailed" /\ codecArr' = codecArr
     ELSE /\ codecArr' = Decode(codecMsg, codecOrder)
          /\ codecPhase' = IF ReportRaises(Decode(codecMsg, codecOrder))
                           THEN "decodeFailed" ELSE "decoded"
  /\ UNCHANGED << codecFrame, codecPoints, codecOrder, codecMsg >>
  /\ UNCHANGED clientVars /\ UNCHANGED serverVars
  /\ UNCHANGED inboundVars /\ UNCHANGED countVars

CodecNext ==
  \/ CodecEncode
  \/ CodecDecode

(***************************************************************************)
(* send_data_stream's frame count for durations and frequencies that need   *)
(* not be integers.  Both are multiples of 1/4 (exact as Python floats, as  *)
(* is their product, a multiple of 1/16).  The body of an iteration is Tick;*)
(* its exceptions are caught, so it has no part in the count.               *)
(***************************************************************************)
\* num_frames = duration * frequency, in sixteenths.
NumFramesSixteenths == countDuration * countFrequency

\* int(x) of a positive float: the fraction is cut off.
IntOf(sixteenths) == sixteenths \div 16

\* lines 90-94: interval and num_frames are computed and range(int(num_frames))
\* is built.
CountStart ==
  /\ countPhase = "init"
  /\ countFrames' = IntOf(NumFramesSixteenths)
  /\ countPhase' = "loop"
  /\ UNCHANGED << countDuration, countFrequency, countTicks >>
  /\ UNCHANGED clientVars /\ UNCHANGED serverVars
  /\ UNCHANGED codecVars /\ UNCHANGED inboundVars

\* lines 94-105: one iteration of the loop.
CountTick ==
  /\ countPhase = "loop"
  /\ countTicks < countFrames
  /\ countTicks' = countTicks + 1
  /\ UNCHANGED << countPhase, countDuration, countFrequency, countFrames >>
  /\ UNCHANGED clientVars /\ UNCHANGED serverVars
  /\ UNCHANGED codecVars /\ UNCHANGED inboundVars

\* line 94: the range is exhausted and send_data_stream returns.
CountEnd ==
  /\ countPhase = "loop"
  /\ countTicks >= countFrames
  /\ countPhase' = "done"
  /\ UNCHANGED << countDuration, countFrequency, countFrames, countTicks >>
  /\ UNCHANGED clientVars /\ UNCHANGED serverVars
  /\ UNCHANGED codecVars /\ UNCHANGED inboundVars

\* send_data_stream(duration, frequency, points) is called with positive
\* arguments.
CountInit ==
  /\ countPhase = "init"
  /\ countDuration \in 1 .. MaxQuarters
  /\ countFrequency \in 1 .. MaxQuarters
  /\ countFrames = 0 /\ countTicks = 0

CountNext ==
  \/ CountStart
  \/ CountTick
  \/ CountEnd

(***************************************************************************)
(* The specifications.                                                     *)
(***************************************************************************)
\* main() from start to end.  A send raises here only when the channel is not
\* open; SpecPacer adds the engine rejecting a send on an open channel.
ClientNext ==
  \/ ConnectCreateOffer
  \/ ConnectSetLocal
  \/ ConnectGather
  \/ ConnectResponse
  \/ ConnectReadJson
  \/ ConnectSetRemote
  \/ MainPoll
  \/ PacerStart(FALSE)
  \/ PacerWake(FALSE)
  \/ EngineGather
  \/ EngineConnect
  \/ ChannelOpen
  \/ EngineClose

\* One call of send_data_stream, the channel closing at any time and the
\* engine rejecting any subset of the sends.
PacerNext ==
  \/ \E rej \in BOOLEAN : PacerStart(rej)
  \/ \E rej \in BOOLEAN : PacerWake(rej)
  \/ EngineClose

vars == << clientVars, serverVars, codecVars, inboundVars, countVars >>

\* A client that has not started, outside the client's specifications.
ClientIdle ==
  /\ cpc = "start"
  /\ localSet = FALSE /\ gathering = "new" /\ remoteSet = FALSE
  /\ conn = "new" /\ chan = "connecting"
  /\ posts = 0 /\ postedComplete = FALSE /\ response = NoResponse
  /\ error = None
  /\ points = 1
  /\ order = "little"
  /\ duration = 0 /\ frequency = 0 /\ frame = 0
  /\ ticks = 0 /\ sleeps = 0 /\ attempts = << >> /\ errors = 0
  /\ observedOpen = FALSE /\ connectReturned = FALSE

\* No channel announced, no message delivered.
InboundIdle ==
  /\ hostOrder = "little"
  /\ handlerOn = [p \in Handlers |-> FALSE]
  /\ inbox = [p \in Handlers |-> << >>]
  /\ arrived = [p \in Handlers |-> 0]
  /\ handled = [p \in Handlers |-> << >>]

\* No frame count under evaluation.
CountIdle ==
  /\ countPhase = "init"
  /\ countDuration = 4 /\ countFrequency = 4
  /\ countFrames = 0 /\ countTicks = 0

InitClient == ClientInit /\ ServerInit /\ CodecIdle /\ InboundIdle /\ CountIdle
InitPacer == PacerInit /\ ServerInit /\ CodecIdle /\ InboundIdle /\ CountIdle
InitServer == ClientIdle /\ ServerInit /\ CodecIdle /\ InboundIdle /\ CountIdle
InitCodec == ClientIdle /\ ServerInit /\ CodecInit /\ InboundIdle /\ CountIdle

InitInbound == ClientIdle /\ InboundServerInit /\ CodecIdle /\ InboundInit /\ CountIdle
SpecInbound == InitInbound /\ [][InboundNext]_vars
InitCount == ClientIdle /\ ServerInit /\ CodecIdle /\ InboundIdle /\ CountInit
SpecCount == InitCount /\ [][CountNext]_vars
SpecClient == InitClient /\ [][ClientNext]_vars
SpecPacer == InitPacer /\ [][PacerNext]_vars
SpecServer == InitServer /\ [][ServerNext]_vars
SpecServerFair == SpecServer /\ WF_vars(ServerNext)
\* Every asyncio.sleep of main and of send_data_stream returns and the event
\* loop resumes the coroutine (lines 104, 114); nothing is assumed of the
\* engine.
SpecClientFair ==
  /\ SpecClient
  /\ WF_vars(MainPoll)
  /\ WF_vars(PacerStart(FALSE))
  /\ WF_vars(PacerWake(FALSE))
\* The event loop resumes every call whose awaited request body or engine call
\* has completed; the first call's awaits may never complete (a stalled
\* handshake), those of the later calls do.
SpecServerStalled ==
  SpecServer /\ \A h \in Handlers \ {1} : WF_vars(HandleStep(h))
SpecCodec == InitCodec /\ [][CodecNext]_vars


(***************************************************************************)
(* The claims.                                                             *)
(***************************************************************************)
\* Row 0 of a frame whose sequence number is n.
MarkerRow(n) == [c \in 1 .. Components |-> IntValue(n)]

\* The sequence numbers whose send was attempted.
AttemptedSeqs == {attempts[k].first[1].v : k \in DOMAIN attempts}

\* C1 (SpecPacer): for positive integers duration and frequency (and a
\* positive point count, the pacer's contract), a run of send_data_stream
\* makes exactly duration * frequency send attempts, one per tick, and the
\* k-th attempt carries sequence number k-1 in its row 0: 0, 1, ..., in
\* increasing order with none skipped or repeated.
PacingCardinality ==
  points >= 1 =>
    /\ Len(attempts) = ticks
    /\ Len(attempts) <= duration * frequency
    /\ \A k \in DOMAIN attempts : attempts[k].first = MarkerRow(k - 1)
    /\ cpc = "done" => Len(attempts) = duration * frequency

PacingCardinalityWitness ==
  /\ cpc = "done"
  /\ points >= 1
  /\ duration >= 2 /\ frequency >= 2
  /\ Len(attempts) = duration * frequency
  /\ attempts[Len(attempts)].first = MarkerRow(duration * frequency - 1)

\* C2 (SpecPacer): whatever subset of ticks has its encoding or send raise,
\* the loop performs every one of the duration * frequency ticks, every tick
\* (failed or not) is followed by the interval sleep, every failure is logged
\* and none retried (a sequence number is attempted at most once, in
\* increasing order), and at the end every sequence number that could be
\* encoded was attempted exactly once, so those whose send did not fail were
\* sent once and in order.
ResilienceToSendFailure ==
  /\ sleeps = ticks
  /\ ticks <= duration * frequency
  /\ cpc = "done" => ticks = duration * frequency
  /\ errors = ticks - Cardinality({k \in DOMAIN attempts : attempts[k].ok})
  /\ \A i, j \in DOMAIN attempts :
       i < j => attempts[i].first[1].v < attempts[j].first[1].v
  /\ (cpc = "done" /\ points >= 1) =>
       /\ AttemptedSeqs = 0 .. (duration * frequency - 1)
       /\ Len(attempts) = duration * frequency

ResilienceToSendFailureWitness ==
  /\ cpc = "done"
  /\ ticks = duration * frequency
  /\ \E i, j \in DOMAIN attempts :
       /\ i + 1 < j
       /\ attempts[i].ok /\ ~attempts[i + 1].ok /\ attempts[j].ok

\* C6 (SpecClient): once the relay has answered the POST with a status other
\* than 200, connect() has failed with an error carrying that status, the
\* remote description is never applied, the session is never CONNECTED and
\* the run sends no frame.
RelayRefused == response # NoResponse /\ response.status # StatusOK

SignalingFailureTerminal ==
  RelayRefused =>
    /\ cpc = "failed"
    /\ error = [kind |-> "signaling", status |-> response.status]
    /\ ~remoteSet
    /\ ~connectReturned
    /\ ClientSessionState # "CONNECTED"
    /\ ticks = 0 /\ attempts = << >>

SignalingFailureTerminalWitness ==
  /\ RelayRefused
  /\ response.status = StatusError
  /\ response.body = "answer"
  /\ error.status = StatusError

\* C7 (SpecClient): no send attempt is made, and the pacer is not started,
\* before connect() has returned and main's poll has read readyState "open".
PacerStartPrecondition ==
  (cpc \in {"scheduled", "sleep"} \/ ticks > 0 \/ attempts # << >>) =>
    (connectReturned /\ observedOpen)

PacerStartPreconditionWitness ==
  /\ observedOpen
  /\ Len(attempts) >= 2
  /\ attempts[1].ok

\* C8 (SpecClient), as claimed: once the channel is closed during a pacer
\* run (one whose frames encode, points >= 1), the run makes no further send
\* attempt and no further tick.
PacerStopsOnClosed ==
  [][(chan = "closed" /\ cpc = "sleep" /\ ticks >= 1 /\ points >= 1) =>
        (attempts' = attempts /\ ticks' = ticks)]_vars

\* C13 (SpecClient): the offer is posted only once the local description is
\* set and gathering is complete (no partial description is ever posted), and
\* the remote description is applied only after the offer was posted and the
\* relay answered 200 with a well-formed answer.
OfferCompletenessOrdering ==
  /\ (cpc = "posted" \/ posts > 0) =>
       (posts >= 1 /\ postedComplete /\ localSet /\ gathering = "complete")
  /\ (cpc = "setRemote" \/ remoteSet) =>
       /\ posts >= 1
       /\ response.status = StatusOK
       /\ ~AnswerMalformed(response.body)

OfferCompletenessOrderingWitness ==
  /\ remoteSet
  /\ posts = 1
  /\ postedComplete
  /\ response = [status |-> StatusOK, body |-> "answer"]

\* C14 (SpecClient): a 200 response whose body is not a well-formed session
\* description makes connect() fail at the parse: the remote description is
\* never applied, connect() never returns, and main never reaches its poll,
\* never starts the pacer and sends nothing.
AnswerRejected ==
  /\ response # NoResponse
  /\ response.status = StatusOK
  /\ AnswerMalformed(response.body)

MalformedAnswerFails ==
  AnswerRejected =>
    /\ cpc \in {"readJson", "failed"}
    /\ cpc = "failed" => error = [kind |-> "malformed", status |-> StatusOK]
    /\ ~remoteSet
    /\ ~connectReturned
    /\ ~observedOpen
    /\ ticks = 0 /\ attempts = << >> /\ sleeps = 0

MalformedAnswerFailsWitness ==
  /\ AnswerRejected
  /\ response.body = "notype"
  /\ cpc = "failed"
  /\ posts = 1
  /\ error.kind = "malformed"

\* C15 (SpecClient): one call of connect() posts the offer at most once;
\* a failed connect() has posted at most once and no step posts after the
\* call has failed.
SinglePost ==
  /\ posts <= 1
  /\ cpc \in {"readJson", "setRemote", "poll", "scheduled", "sleep", "done"} =>
       posts = 1

SinglePostWitness ==
  /\ cpc = "failed"
  /\ posts = 1
  /\ response.status = 404
  /\ error.kind = "signaling"

\* C16 (SpecCount), as claimed: for a positive duration and frequency the
\* run performs round(duration * frequency) ticks (ties to even, as Python
\* rounds).
Round(sixteenths) ==
  LET q == sixteenths \div 16
      r == sixteenths % 16
  IN IF r > 8 THEN q + 1
     ELSE IF r < 8 THEN q
     ELSE IF q % 2 = 0 THEN q ELSE q + 1

FrameCountRounded ==
  countPhase = "done" => countTicks = Round(NumFramesSixteenths)

\* C19 (SpecClientFair): after connect() has returned main sits in its poll
\* and no step takes it out of the poll unless readyState is "open", and
\* then only into the pacer; while main polls nothing has been sent.  Once
\* the channel is closed under a polling main it stays closed and main stays
\* in its poll, so main polls for ever and never sends.  Conversely a started
\* pacer never leaves but by finishing, and a poll that finds the channel
\* open starts it: a polling main whose channel is open, and a started
\* pacer, eventually have performed all 10 * 4 ticks with main terminated,
\* unless the channel closed before a poll read it.
PollExit ==
  cpc = "poll" =>
    \/ cpc' = "poll"
    \/ chan = "open" /\ cpc' = "scheduled" /\ observedOpen'

PollSilent ==
  cpc = "poll" =>
    connectReturned /\ ~observedOpen /\ ticks = 0 /\ attempts = << >>

PollStuck ==
  (cpc = "poll" /\ chan = "closed") =>
    (cpc' = "poll" /\ chan' = "closed" /\ ticks' = 0 /\ attempts' = << >>)

PacerRuns ==
  cpc \in {"scheduled", "sleep"} => cpc' \in {"scheduled", "sleep", "done"}

AllTicksDone == cpc = "done" /\ ticks = MainDuration * MainFrequency

ReadinessWait ==
  /\ [][PollExit /\ PollStuck /\ PacerRuns]_vars
  /\ []PollSilent
  /\ (cpc \in {"scheduled", "sleep"} \/ (cpc = "poll" /\ chan = "open"))
       ~> (AllTicksDone \/ (cpc = "poll" /\ chan = "closed"))

\* connect() returned, the session failed and the channel closed before any
\* poll saw it open: main is polling, nothing was sent.
ReadinessWaitWitness ==
  /\ cpc = "poll"
  /\ connectReturned /\ remoteSet
  /\ conn = "closed" /\ chan = "closed"
  /\ ticks = 0

\* C3 (SpecServer): every offer that gets as far as a connection gets a
\* connection of its own; under every interleaving each call that returned
\* 200 has its own connection in self.connections, exactly once, with no
\* entry lost, and it stays there (closed or not).
RegistryIsolation ==
  /\ \A g, h \in Handlers :
       (g # h /\ hconn[g] # 0 /\ hconn[h] # 0) => hconn[g] # hconn[h]
  /\ Len(pcs) = Cardinality({h \in Handlers : hconn[h] # 0})
  /\ \A h \in Handlers : hstatus[h] = StatusOK => InRegistry(hconn[h])
  /\ \A i, j \in DOMAIN connections : i # j => connections[i] # connections[j]
  /\ Len(connections) = Cardinality({h \in Handlers : hstatus[h] = StatusOK})

\* Two calls in flight together, the later connection registered first, one
\* session closed while the other is connected, both still registered.
RegistryIsolationWitness ==
  /\ hstatus[1] = StatusOK /\ hstatus[2] = StatusOK
  /\ hconn[1] = 1 /\ hconn[2] = 2
  /\ connections = << 2, 1 >>
  /\ pcs[1].conn = "closed" /\ pcs[2].conn = "connected"

\* C12 (SpecServer): a handle_offer call that has returned has returned 200
\* or 500 and nothing else.  The step that returns 200 is the step that
\* appends the call's connection, with its local answer set, to
\* self.connections, which grows by that one entry; the step that returns 500
\* leaves self.connections as it was, and the connection of a call answered
\* 500 is never in it.  No call is answered 200 with its connection outside
\* self.connections.
Registrations(p) == Cardinality({i \in DOMAIN connections : connections[i] = p})

AnswerOutcome ==
  \A h \in Handlers :
    /\ hstatus[h] \in {0, StatusOK, StatusError}
    /\ hpc[h] = "done" <=> hstatus[h] # 0
    /\ hstatus[h] = StatusOK =>
         /\ hconn[h] \in PcIds
         /\ pcs[hconn[h]].remoteSet /\ pcs[hconn[h]].localSet
         /\ Registrations(hconn[h]) = 1
    /\ hstatus[h] # StatusOK => Registrations(hconn[h]) = 0

AnswerStep ==
  \A h \in Handlers :
    (hpc[h] # "done" /\ hpc'[h] = "done") =>
      \/ /\ hstatus'[h] = StatusOK
         /\ connections' = Append(connections, hconn[h])
      \/ /\ hstatus'[h] = StatusError
         /\ connections' = connections

AnswerContract == []AnswerOutcome /\ [][AnswerStep]_vars

\* One call failed after its connection was created, another was answered
\* 200; the registry holds the second connection only.
AnswerContractWitness ==
  /\ hstatus[1] = StatusError /\ hconn[1] = 1 /\ pcs[1].remoteSet
  /\ hstatus[2] = StatusOK /\ hconn[2] = 2
  /\ connections = << 2 >>

\* C11 (SpecInbound): every bytes message handled whose length is not a
\* positive multiple of 12 (0, 4, 10 and 16 bytes among them) is logged as
\* dropped and never as a frame; a 12-byte message is logged as a frame of
\* one row and a 24-byte message as a frame of two.  A call of on_message
\* changes nothing but its own queue and log: the connections, their
\* channels, self.connections and the registration of the handler are as
\* before, so the next message is handled.
PositiveMultipleOfTriple(len) == len > 0 /\ len % (FloatBytes * Components) = 0

LengthValidated ==
  \A p \in Handlers : \A k \in DOMAIN handled[p] :
    LET r == handled[p][k]
    IN /\ r.kind \in {"frame", "dropped", "warned"}
       /\ r.kind # "warned" =>
            /\ r.kind = "frame" <=> PositiveMultipleOfTriple(r.len)
            /\ r.kind = "frame" => r.rows * FloatBytes * Components = r.len

HandlerContained ==
  handled' # handled =>
    /\ pcs' = pcs /\ connections' = connections
    /\ handlerOn' = handlerOn /\ arrived' = arrived
    /\ \A p \in Handlers : Len(handled'[p]) + Len(inbox'[p]) = Len(handled[p]) + Len(inbox[p])

LengthValidation == []LengthValidated /\ [][HandlerContained]_vars

\* A 10-byte and a 16-byte message were dropped and the 12-byte message
\* after them was logged as a frame of one row.
LengthValidationWitness ==
  /\ Len(handled[1]) = 3
  /\ handled[1][1].kind = "dropped" /\ handled[1][1].len = 10
  /\ handled[1][2].kind = "dropped" /\ handled[1][2].len = 16
  /\ handled[1][3].kind = "frame" /\ handled[1][3].len = 12
  /\ handled[1][3].rows = 1

\* C17 (SpecInbound): on an announced channel the handler is registered and
\* stays registered; every message that arrived is either waiting for its
\* call of on_message or was handled by exactly one call, and the calls ran
\* in arrival order (the k-th log entry is that of the k-th message, so no
\* frame is logged after the frame of a later message), whatever the
\* messages before it decoded to.
DeliveryInOrder ==
  \A p \in Handlers :
    /\ (p \in PcIds /\ pcs[p].chan # "none") => handlerOn[p]
    /\ arrived[p] = Len(handled[p]) + Len(inbox[p])
    /\ \A k \in DOMAIN handled[p] : handled[p][k].id = k
    /\ \A k \in DOMAIN inbox[p] : inbox[p][k].id = Len(handled[p]) + k
    /\ \A k \in DOMAIN handled[p] :
         (handled[p][k].kind = "frame" /\ handled[p][k].len >= FloatBytes * Components) =>
            handled[p][k].first = IntValue(k - 1)

\* A frame was logged for the third message after the first failed to decode
\* and the second was text, and the channel has closed since.
DeliveryInOrderWitness ==
  /\ Len(handled[1]) = 3
  /\ handled[1][1].kind = "dropped"
  /\ handled[1][2].kind = "warned"
  /\ handled[1][3].kind = "frame" /\ handled[1][3].rows = 2
  /\ pcs[1].chan = "closed"

\* C18 (SpecServerStalled): while the first call may stay suspended at any of
\* its awaits for ever, every later offer that arrived is answered (200 with
\* its connection registered, or 500 when its own step failed); and a step
\* of one call leaves every other call where it was: its position, its
\* answer, its connection and the entries of that connection in
\* self.connections.
LaterOfferAnswered ==
  \A h \in Handlers \ {1} : (hpc[h] = "json") ~> (hstatus[h] # 0)

OtherCallsUntouched ==
  \A g, h \in Handlers :
    (g # h /\ hpc'[g] # hpc[g]) =>
      /\ hpc'[h] = hpc[h] /\ hstatus'[h] = hstatus[h] /\ hconn'[h] = hconn[h]
      /\ hconn[h] # 0 =>
           /\ pcs'[hconn[h]] = pcs[hconn[h]]
           /\ {i \in DOMAIN connections' : connections'[i] = hconn[h]}
                = {i \in DOMAIN connections : connections[i] = hconn[h]}

SessionIndependence == LaterOfferAnswered /\ [][OtherCallsUntouched]_vars

\* The first call is still suspended at setRemoteDescription; the second,
\* which arrived after it, has been answered 200 and is the only entry of
\* self.connections, its session connected.
SessionIndependenceWitness ==
  /\ hpc[1] = "setRemote" /\ hstatus[1] = 0
  /\ hstatus[2] = StatusOK
  /\ connections = << hconn[2] >>
  /\ pcs[hconn[2]].conn = "connected"

\* C4 (SpecServer), as claimed: every connection created and not CLOSED is
\* in self.connections.
RegistryRetention ==
  \A p \in PcIds : SessionState(pcs[p]) # "CLOSED" => InRegistry(p)

\* C5 (SpecServerFair), as claimed: a registered session that reaches CLOSED
\* is eventually removed from self.connections.
ReleaseOnClosed ==
  \A p \in 1 .. MaxOffers :
    (p \in PcIds /\ InRegistry(p) /\ SessionState(pcs[p]) = "CLOSED")
      ~> ~InRegistry(p)

\* C9 (SpecServer), as claimed: after a failed establishment the connection
\* made for the attempt is CONNECTED or CLOSED, on the client (main left by
\* an exception of connect) and on the server (a call answered 500).
NoPartialSession ==
  /\ cpc = "failed" => ClientSessionState \in {"CONNECTED", "CLOSED"}
  /\ \A h \in Handlers :
       (hstatus[h] = StatusError /\ hconn[h] # 0) =>
          SessionState(pcs[hconn[h]]) \in {"CONNECTED", "CLOSED"}

====
